---- MODULE Spec2Model ----
(***************************************************************************)
(* A model of monitor.py: the monitoring loop of monitor_like_task_manager *)
(* (sampling, cache update, forest building, rendering, sleep) and the     *)
(* recursive log_process_tree.  One action per numbered section of the     *)
(* loop body; the operating system (psutil) is the environment, and every  *)
(* answer it gives is drawn from the sets of an environment record E.      *)
(*                                                                         *)
(* Units: CPU in whole percent, memory in bytes / KB, I/O in bytes.        *)
(***************************************************************************)
EXTENDS Integers, Sequences, FiniteSets, TLC

\* Number of process ids of the sampling specifications (Spec, SpecFault).
MaxPid == 2
\* Number of process ids of the forest specifications (SpecTree, SpecFilter).
MaxTreePid == 3

\* Python's None as a name or a status (psutil's ad_value) ...
None == "None"
\* ... and where the code holds an integer (a parent id, a core count).
NoneInt == -1

Min(a, b) == IF a < b THEN a ELSE b
Max(a, b) == IF a > b THEN a ELSE b

\* dict[k] = v
Put(f, k, v) == [x \in DOMAIN f \cup {k} |-> IF x = k THEN v ELSE f[x]]
Range(s) == {s[i] : i \in DOMAIN s}
EmptyDict == <<>>

VARIABLES
    cpu_cores,               \* get_cpu_cores() at the start of the run
    target_app_name,         \* the name filter, or None
    previous_io_counters,    \* global: pid -> io counters of the previous snapshot
    process_objects_cache,   \* global: the pids holding a cached psutil.Process
    current_snapshot_data,   \* global: pid -> sample of the current snapshot
    all_processes_this_iter, \* the enumeration, in its order: proc.info records
    fetched,                 \* pid -> what psutil answered for it in this cycle
    newly_cached_pids,       \* pids whose handle was created in this cycle
    current_io_snapshot,     \* pid -> io counters fetched in this cycle
    children_map,            \* pid -> list of child pids
    root_candidates,
    target_pids_found,
    root_pids_to_log,
    block,                   \* the lines this cycle appended to the snapshot file
    returned,                \* pid -> totals log_process_tree returned for it
    seen,                    \* pids enumerated in an earlier cycle of this run
    repeat_interval_seconds, \* the configured interval, in tenths of a second
    sleep_time,              \* what the cycle slept at its end, in tenths of a second
    oplog,                   \* the cycle's CRITICAL entry and the stop message of
                             \* the operational log
    interrupted,             \* whether KeyboardInterrupt was raised in the loop
    baseline_from,           \* the cycle previous_io_counters was recorded in
    elapsed_time,            \* what the cycle's processing took, in tenths of a second
    since_last_snapshot,     \* time.time() - last_snapshot_time at the top of the loop
    actual_interval_duration, \* the interval the cycle divides the I/O deltas by
    snapshot_file,           \* the lines of the snapshot file (in SpecFile)
    run_number,              \* how many times monitor_like_task_manager was started
    args,                    \* the arguments of a function called on its own
    result,                  \* what the function returned and wrote
    pc                       \* position in the loop

\* The clock readings of the loop.
timevars == <<elapsed_time, since_last_snapshot, actual_interval_duration>>
\* The snapshot file across runs, and the call of a function on its own.
filevars == <<snapshot_file, run_number>>
callvars == <<args, result>>

vars == <<cpu_cores, target_app_name, previous_io_counters, process_objects_cache,
          current_snapshot_data, all_processes_this_iter, fetched,
          newly_cached_pids, current_io_snapshot, children_map, root_candidates,
          target_pids_found, root_pids_to_log, block, returned, seen,
          repeat_interval_seconds, sleep_time, oplog, baseline_from, interrupted,
          timevars, filevars, callvars, pc>>

(***************************************************************************)
(* psutil's answers.                                                       *)
(***************************************************************************)
HandleErrors == {"NoSuchProcess", "AccessDenied"}
Skipped == [res |-> "skipped", v |-> 0]
SkippedIo == [res |-> "skipped", read_bytes |-> 0, write_bytes |-> 0]
OkValue(S) == {[res |-> "ok", v |-> x] : x \in S}
Failed == [res |-> "fail", v |-> 0]
IoOk(S) == {[res |-> "ok", read_bytes |-> c[1], write_bytes |-> c[2]] : c \in S}
\* io_counters() raising NoSuchProcess, AccessDenied, NotImplementedError or OSError
IoError == [res |-> "oserror", read_bytes |-> 0, write_bytes |-> 0]
\* io_counters() raising anything else (AttributeError where psutil has no io_counters)
IoOther == [res |-> "other", read_bytes |-> 0, write_bytes |-> 0]
\* the priming block's cpu_percent() or io_counters() raising
PrimeFailed == [res |-> "fail", read_bytes |-> 0, write_bytes |-> 0]

\* What psutil can answer for one enumerated pid in the sampling loop: is_running()
\* of a cached handle, psutil.Process(pid) otherwise, then the three fetches.
Replies(E, cached) ==
    LET runs == IF cached THEN E.is_running ELSE {"n/a"}
        handles(run) == IF run = "yes" THEN {"cached"} ELSE E.handles
        of(run, h) ==
            IF h \in HandleErrors
            THEN {[is_running |-> run, handle |-> h, cpu |-> Skipped, mem |-> Skipped,
                   io |-> SkippedIo, prime |-> SkippedIo]}
            ELSE {[is_running |-> run, handle |-> h, cpu |-> c, mem |-> m,
                   io |-> i, prime |-> SkippedIo] :
                      c \in E.cpu, m \in E.mem, i \in E.io}
    IN  UNION {UNION {of(run, h) : h \in handles(run)} : run \in runs}

ReplyMaps(E, S, cache) ==
    {fc @@ fn : fc \in [S \cap cache -> Replies(E, TRUE)],
                fn \in [S \ cache -> Replies(E, FALSE)]}

RECURSIVE SortedSeq(_)
SortedSeq(S) ==
    IF S = {} THEN <<>>
    ELSE LET m == CHOOSE x \in S : \A y \in S : x <= y
         IN  <<m>> \o SortedSeq(S \ {m})

Reverse(s) == [i \in 1..Len(s) |-> s[Len(s) + 1 - i]]

\* psutil.process_iter(['pid', 'ppid', 'name', 'status'], ad_value=None): the live
\* processes, each with its proc.info.
Enumerations(E) ==
    UNION {UNION {
        {[i \in 1..Len(ord) |-> [pid |-> ord[i], ppid |-> info[ord[i]].ppid,
                                 name |-> info[ord[i]].name,
                                 status |-> info[ord[i]].status]] :
            ord \in {IF o = "asc" THEN SortedSeq(S) ELSE Reverse(SortedSeq(S)) :
                        o \in E.orders}}
        : info \in {f \in [S -> [ppid : UNION {E.ppids[p] : p \in S}, name : E.names,
                                 status : E.statuses]] :
                        \A p \in S : f[p].ppid \in E.ppids[p]}}
        : S \in SUBSET E.pids \ {{}}}

(***************************************************************************)
(* Section 1 of the loop: one sample per enumerated process.               *)
(***************************************************************************)
\* The entry stored when psutil.Process(pid) raises NoSuchProcess / AccessDenied.
\* proc.info always has the key 'status', so .get('status', 'terminated') is
\* proc.info's own status.
MinimalEntry(proc) ==
    [ppid |-> proc.ppid, name |-> proc.name, status |-> proc.status,
     cpu_percent |-> 0, mem_ws_kb |-> 0,
     delta_read_bytes |-> 0, delta_write_bytes |-> 0]

\* Process.cpu_percent(interval=None): 0.0 on the first call on a handle, the usage
\* since the previous call afterwards.
cpu_percent(handle, busy) == IF handle = "created" THEN 0 ELSE busy

\* A variant without the cap.
CpuPerCoreUncapped(raw, cores) == IF cores > 0 THEN raw \div cores ELSE raw
\* raw / cpu_cores, capped at 100
CpuPerCore(raw, cores) ==
    LET scaled == IF cores > 0 THEN raw \div cores ELSE raw
    IN  Min(100, scaled)

StatusAfterCpu(status, cpu) ==
    IF cpu.res # "ok" /\ status \notin {"terminated", "access denied"}
    THEN "cpu error" ELSE status

\* A variant in which a memory failure overwrites the status.
StatusAfterMemOverwrites(status, mem) ==
    IF mem.res # "ok" THEN "mem error" ELSE status
\* except around memory_info(): 'mem error' unless an earlier annotation is set
StatusAfterMem(status, mem) ==
    IF mem.res # "ok" /\ status \notin {"terminated", "access denied", "cpu error"}
    THEN "mem error" ELSE status

StatusAfterIo(status, io) ==
    CASE io.res = "oserror" /\
            status \notin {"terminated", "access denied", "cpu error", "mem error"}
            -> "io error"
      [] io.res = "other" /\
            status \notin {"terminated", "access denied", "cpu error", "mem error",
                           "io error"}
            -> "fetch error"
      [] OTHER -> status

\* A variant without the clamp.
ClampedDeltaRaw(current, previous) == current - previous
\* max(0, current - previous)
ClampedDelta(current, previous) == Max(0, current - previous)

\* A variant that measures a pid without a cached entry from zero.
DeltaPrimedFromZero(pid, current, prev, field) ==
    IF pid \in DOMAIN prev THEN ClampedDelta(current[field], prev[pid][field])
    ELSE current[field]
\* The delta of one counter of a pid whose io_counters() succeeded.
IoDelta(pid, current, prev, field) ==
    IF pid \in DOMAIN prev THEN ClampedDelta(current[field], prev[pid][field])
    ELSE 0

Counters(io) == [read_bytes |-> io.read_bytes, write_bytes |-> io.write_bytes]

\* The entry stored for a process whose handle is available.
FullEntry(proc, r, prev, cores) ==
    [ppid |-> proc.ppid,
     name |-> IF proc.name = None THEN "N/A" ELSE proc.name,
     status |-> StatusAfterIo(StatusAfterMem(StatusAfterCpu(proc.status, r.cpu),
                                              r.mem), r.io),
     cpu_percent |-> IF r.cpu.res = "ok"
                     THEN CpuPerCore(cpu_percent(r.handle, r.cpu.v), cores) ELSE 0,
     mem_ws_kb |-> IF r.mem.res = "ok" THEN r.mem.v \div 1024 ELSE 0,
     delta_read_bytes |-> IF r.io.res = "ok"
                          THEN IoDelta(proc.pid, Counters(r.io), prev, "read_bytes")
                          ELSE 0,
     delta_write_bytes |-> IF r.io.res = "ok"
                           THEN IoDelta(proc.pid, Counters(r.io), prev, "write_bytes")
                           ELSE 0]

\* A variant that stores no entry when the handle cannot be created.
LoopBodyDropFailed(acc, proc, r, prev, cores) ==
    IF r.handle \in HandleErrors
    THEN [acc EXCEPT !.cache = acc.cache \ {proc.pid}]
    ELSE [cache |-> acc.cache \cup {proc.pid},
          newly |-> IF r.handle = "created" THEN Append(acc.newly, proc.pid)
                    ELSE acc.newly,
          io |-> IF r.io.res = "ok" THEN Put(acc.io, proc.pid, Counters(r.io))
                 ELSE acc.io,
          snap |-> Put(acc.snap, proc.pid, FullEntry(proc, r, prev, cores))]
\* One iteration of "for proc in all_processes_this_iter".
LoopBody(acc, proc, r, prev, cores) ==
    IF r.handle \in HandleErrors
    THEN [acc EXCEPT !.cache = acc.cache \ {proc.pid},
                     !.snap = Put(acc.snap, proc.pid, MinimalEntry(proc))]
    ELSE [cache |-> acc.cache \cup {proc.pid},
          newly |-> IF r.handle = "created" THEN Append(acc.newly, proc.pid)
                    ELSE acc.newly,
          io |-> IF r.io.res = "ok" THEN Put(acc.io, proc.pid, Counters(r.io))
                 ELSE acc.io,
          snap |-> Put(acc.snap, proc.pid, FullEntry(proc, r, prev, cores))]

RECURSIVE CollectLoop(_, _, _, _, _, _)
CollectLoop(procs, replies, i, acc, prev, cores) ==
    IF i > Len(procs) THEN acc
    ELSE CollectLoop(procs, replies, i + 1,
                     LoopBody(acc, procs[i], replies[procs[i].pid], prev, cores),
                     prev, cores)

PidsFound(procs) == {procs[i].pid : i \in DOMAIN procs}

Collect(E) ==
    /\ pc = "collect"
    /\ \E procs \in Enumerations(E) :
       \E replies \in ReplyMaps(E, PidsFound(procs), process_objects_cache) :
          LET acc == CollectLoop(procs, replies, 1,
                                 [cache |-> process_objects_cache, newly |-> <<>>,
                                  io |-> EmptyDict, snap |-> EmptyDict],
                                 previous_io_counters, cpu_cores)
          IN  /\ all_processes_this_iter' = procs
              /\ fetched' = replies
              /\ process_objects_cache' = acc.cache
              /\ newly_cached_pids' = acc.newly
              /\ current_io_snapshot' = acc.io
              /\ current_snapshot_data' = acc.snap
    /\ pc' = "sampled"
    /\ UNCHANGED <<cpu_cores, target_app_name, previous_io_counters, children_map,
                   root_candidates, target_pids_found, root_pids_to_log, block,
                   returned, seen, repeat_interval_seconds, sleep_time, oplog,
                   baseline_from,
                   interrupted>>
    /\ UNCHANGED <<timevars, filevars, callvars>>

\* A variant that retries at once.
SleepAfterFailureNone(interval) == 0
\* time.sleep(repeat_interval_seconds) in the handler of a failed collection
SleepAfterFailure(interval) == interval

\* psutil.process_iter raises: the cycle is abandoned after
\* time.sleep(repeat_interval_seconds).
CollectFail ==
    /\ pc = "collect"
    /\ oplog' = Append(oplog, "Critical error during process data collection")
    /\ sleep_time' = SleepAfterFailure(repeat_interval_seconds)
    /\ pc' = "start"
    /\ UNCHANGED <<cpu_cores, target_app_name, previous_io_counters,
                   process_objects_cache, current_snapshot_data,
                   all_processes_this_iter, fetched, newly_cached_pids,
                   current_io_snapshot, children_map, root_candidates,
                   target_pids_found, root_pids_to_log, block, returned, seen,
                   repeat_interval_seconds, baseline_from,
                   interrupted>>
    /\ elapsed_time' = 0
    /\ since_last_snapshot' = sleep_time'
    /\ UNCHANGED <<actual_interval_duration, filevars, callvars>>

\* The priming block: cpu_percent() and io_counters() once more on every handle
\* created in this cycle; errors are ignored.
RECURSIVE PrimeLoop(_, _, _, _)
PrimeLoop(newly, i, primes, acc) ==
    IF i > Len(newly) THEN acc
    ELSE LET pid == newly[i]
             next == IF pid \in acc.cache /\ primes[pid].res = "ok"
                     THEN [acc EXCEPT
                             !.prev = Put(acc.prev, pid, Counters(primes[pid])),
                             !.io = Put(acc.io, pid, Counters(primes[pid]))]
                     ELSE acc
         IN  PrimeLoop(newly, i + 1, primes, next)

Prime(E) ==
    /\ pc = "sampled"
    /\ \E primes \in [Range(newly_cached_pids) -> E.prime] :
          LET acc == PrimeLoop(newly_cached_pids, 1, primes,
                               [cache |-> process_objects_cache,
                                prev |-> previous_io_counters,
                                io |-> current_io_snapshot])
          IN  /\ previous_io_counters' = acc.prev
              /\ current_io_snapshot' = acc.io
              /\ fetched' = [p \in DOMAIN fetched |->
                               IF p \in DOMAIN primes
                               THEN [fetched[p] EXCEPT !.prime = primes[p]]
                               ELSE fetched[p]]
    /\ pc' = "primed"
    /\ UNCHANGED <<cpu_cores, target_app_name, process_objects_cache,
                   current_snapshot_data, all_processes_this_iter,
                   newly_cached_pids, children_map, root_candidates,
                   target_pids_found, root_pids_to_log, block, returned, seen,
                   repeat_interval_seconds, sleep_time, oplog,
                   baseline_from,
                   interrupted>>
    /\ UNCHANGED <<timevars, filevars, callvars>>

(***************************************************************************)
(* Section 2: the counter cache is replaced, the handle cache is cleaned.  *)
(***************************************************************************)
\* A variant that keeps the entries of ids without counters in this cycle.
NextIoCountersMerged(prev, current) ==
    [p \in DOMAIN prev \cup DOMAIN current |->
        IF p \in DOMAIN current THEN current[p] ELSE prev[p]]
\* previous_io_counters = current_io_snapshot
NextIoCounters(prev, current) == current

\* A variant that removes no handle.
CleanedCacheKeepsAll(cache, found) == cache
\* "for pid in pids_to_remove_from_cache: del process_objects_cache[pid]"
CleanedCache(cache, found) == cache \ (cache \ found)

UpdateCaches ==
    /\ pc = "primed"
    /\ previous_io_counters' = NextIoCounters(previous_io_counters, current_io_snapshot)
    /\ process_objects_cache' =
          CleanedCache(process_objects_cache, PidsFound(all_processes_this_iter))
    /\ baseline_from' = "this cycle"
    /\ pc' = "updated"
    /\ UNCHANGED <<cpu_cores, target_app_name, current_snapshot_data,
                   all_processes_this_iter, fetched, newly_cached_pids,
                   current_io_snapshot, children_map, root_candidates,
                   target_pids_found, root_pids_to_log, block, returned, seen,
                   repeat_interval_seconds, sleep_time, oplog,
                   interrupted>>
    /\ UNCHANGED <<timevars, filevars, callvars>>

(***************************************************************************)
(* Section 3: the children map, the roots, the filter.                     *)
(***************************************************************************)
\* str.lower() on the names of the model
Lower(s) == CASE s = "App" -> "app" [] s = "APP" -> "app" [] OTHER -> s

\* The keys of current_snapshot_data in insertion order: the loop of section 1
\* inserts one entry per enumerated process, in enumeration order.
SnapshotOrder(procs) == [i \in 1..Len(procs) |-> procs[i].pid]

\* A variant of the root test without the orphans.
IsRootNoOrphans(ppid, all) == ppid = NoneInt \/ ppid = 0
\* ppid is None or ppid == 0 or ppid not in all_pids_in_snapshot
IsRoot(ppid, all) == ppid = NoneInt \/ ppid = 0 \/ ppid \notin all

\* A variant without the test that the parent is in the snapshot.
IsChildOfAnyParent(ppid, all) == ppid # NoneInt /\ ppid # 0
\* ppid is not None and ppid != 0 and ppid in all_pids_in_snapshot
IsChild(ppid, all) == ppid # NoneInt /\ ppid # 0 /\ ppid \in all

\* data.get('name', '').lower() == target_app_name_lower; raises AttributeError
\* when the name is None.
NameRaises(target, name) == target # None /\ name = None
NameMatches(target, name) == target # None /\ Lower(name) = Lower(target)

\* children_map[ppid].append(pid) on a defaultdict(list)
AppendChild(cmap, ppid, pid) ==
    Put(cmap, ppid, IF ppid \in DOMAIN cmap THEN Append(cmap[ppid], pid) ELSE <<pid>>)

\* "for pid, data in current_snapshot_data.items()"
RECURSIVE ForestLoop(_, _, _, _, _)
ForestLoop(order, i, snap, target, acc) ==
    IF i > Len(order) \/ acc.raised THEN acc
    ELSE LET pid == order[i]
             ppid == snap[pid].ppid
             all == DOMAIN snap
             next == IF NameRaises(target, snap[pid].name)
                     THEN [acc EXCEPT !.raised = TRUE]
                     ELSE [children |-> IF IsChild(ppid, all)
                                        THEN AppendChild(acc.children, ppid, pid)
                                        ELSE acc.children,
                           roots |-> IF IsRoot(ppid, all) THEN acc.roots \cup {pid}
                                     ELSE acc.roots,
                           targets |-> IF NameMatches(target, snap[pid].name)
                                       THEN acc.targets \cup {pid} ELSE acc.targets,
                           raised |-> FALSE]
         IN  ForestLoop(order, i + 1, snap, target, next)

\* A variant that starts the walk with an empty visited set.
InitialVisitedEmpty(targets) == {}
\* visited = set(target_pids_found)
InitialVisited(targets) == targets

\* The upward walk from the matching processes: "while search_queue". It returns
\* the roots it found and every id that was put on search_queue, in order.
RECURSIVE Walk(_, _, _, _, _)
Walk(queue, visited, roots, snap, enqueued) ==
    IF queue = <<>> THEN [roots |-> roots, enqueued |-> enqueued]
    ELSE LET current_pid == Head(queue)
             rest == Tail(queue)
             ppid == snap[current_pid].ppid
         IN  IF current_pid \notin DOMAIN snap
             THEN Walk(rest, visited, roots, snap, enqueued)
             ELSE IF IsRoot(ppid, DOMAIN snap)
                  THEN Walk(rest, visited, roots \cup {current_pid}, snap, enqueued)
             ELSE IF ppid \notin visited
                  THEN Walk(Append(rest, ppid), visited \cup {ppid}, roots, snap,
                            Append(enqueued, ppid))
             ELSE Walk(rest, visited, roots, snap, enqueued)

\* search_queue = list(target_pids_found) and the walk over it
ResolveTargets(targets, snap) ==
    Walk(SortedSeq(targets), InitialVisited(targets), {}, snap, SortedSeq(targets))

RootsToLog(target, targets, roots, snap) ==
    IF target # None
    THEN IF targets = {} THEN <<>>
         ELSE SortedSeq(ResolveTargets(targets, snap).roots)
    ELSE SortedSeq(roots)

BuildForest ==
    /\ pc = "updated"
    /\ LET acc == ForestLoop(SnapshotOrder(all_processes_this_iter), 1,
                             current_snapshot_data, target_app_name,
                             [children |-> EmptyDict, roots |-> {}, targets |-> {},
                              raised |-> FALSE])
       IN  IF acc.raised
           THEN /\ pc' = "crashed"
                /\ UNCHANGED <<children_map, root_candidates, target_pids_found,
                               root_pids_to_log>>
           ELSE /\ pc' = "forest"
                /\ children_map' = acc.children
                /\ root_candidates' = acc.roots
                /\ target_pids_found' = acc.targets
                /\ root_pids_to_log' = RootsToLog(target_app_name, acc.targets,
                                                  acc.roots, current_snapshot_data)
    /\ UNCHANGED <<cpu_cores, target_app_name, previous_io_counters,
                   process_objects_cache, current_snapshot_data,
                   all_processes_this_iter, fetched, newly_cached_pids,
                   current_io_snapshot, block, returned, seen,
                   repeat_interval_seconds, sleep_time, oplog,
                   baseline_from,
                   interrupted>>
    /\ UNCHANGED <<timevars, filevars, callvars>>

(***************************************************************************)
(* log_process_tree and section 4: the block of the cycle.                 *)
(***************************************************************************)
IndentWidth == 2

ZeroTotal ==
    [cpu |-> 0, ws_kb |-> 0, delta_read_bytes |-> 0, delta_write_bytes |-> 0,
     error_count |-> 0]
\* A variant that does not count the missing process as an error.
MissingTotalNoError == ZeroTotal
\* What log_process_tree returns for a pid that is not in current_snapshot_data.
MissingTotal == [ZeroTotal EXCEPT !.error_count = 1]

StampLine == [kind |-> "stamp", pid |-> 0, indent |-> 0]
NoneFoundLine == [kind |-> "none found", pid |-> 0, indent |-> 0]
MissingLine(pid, indent) == [kind |-> "missing", pid |-> pid, indent |-> indent]
ProcLine(pid, indent) == [kind |-> "process", pid |-> pid, indent |-> indent]

\* A variant that does not count 'io error'.
CountedStatusesNoIo == {"access denied", "error", "fetch error", "cpu error", "mem error"}
\* The statuses the node's own error is counted for.
CountedStatuses ==
    {"access denied", "error", "fetch error", "cpu error", "mem error", "io error"}

\* A variant that keeps the last child's totals only.
AddTotalsLastChild(children_total, child_sum) == child_sum
\* children_total[...] += child_sum[...]
AddTotals(children_total, child_sum) ==
    [cpu |-> children_total.cpu + child_sum.cpu,
     ws_kb |-> children_total.ws_kb + child_sum.ws_kb,
     delta_read_bytes |-> children_total.delta_read_bytes + child_sum.delta_read_bytes,
     delta_write_bytes |->
         children_total.delta_write_bytes + child_sum.delta_write_bytes,
     error_count |-> children_total.error_count + child_sum.error_count]

\* total_for_node: the node's own values plus its children's totals.
NodeTotal(sample, children_total) ==
    [cpu |-> sample.cpu_percent + children_total.cpu,
     ws_kb |-> sample.mem_ws_kb + children_total.ws_kb,
     delta_read_bytes |-> sample.delta_read_bytes + children_total.delta_read_bytes,
     delta_write_bytes |-> sample.delta_write_bytes + children_total.delta_write_bytes,
     error_count |-> (IF sample.status \in CountedStatuses THEN 1 ELSE 0)
                     + children_total.error_count]

\* Formatting the line raises TypeError on a name that is None (len(None), or
\* None += " (n)") and on a status that is None (format(None, '<15')).
LineRaises(sample) == sample.name = None \/ sample.status = None

\* children_map.get(pid, [])
ChildrenOf(cmap, pid) == IF pid \in DOMAIN cmap THEN cmap[pid] ELSE <<>>

ValidChildren(cmap, pid, snap) ==
    SelectSeq(ChildrenOf(cmap, pid), LAMBDA p : p \in DOMAIN snap)

\* A variant that visits the children in the order of children_map.
SortedChildrenAsListed(valid) == valid
\* sorted(valid_children_pids)
SortedChildren(valid) == SortedSeq(Range(valid))

\* A variant that writes the line of the node before the lines of its children.
WithOwnLineFirst(children_lines, line) == <<line>> \o children_lines
\* txt_handle.write(line + '\n') after the loop over the children
WithOwnLine(children_lines, line) == Append(children_lines, line)

RECURSIVE LogTree(_, _, _, _)
RECURSIVE ChildrenLoop(_, _, _, _, _, _)

\* log_process_tree(pid, children_map, ..., indent): the lines it writes, the totals
\* it returns, the totals every completed call under it returned, and whether it
\* raised.
LogTree(pid, cmap, snap, indent) ==
    IF pid \notin DOMAIN snap
    THEN [lines |-> <<MissingLine(pid, indent)>>, total |-> MissingTotal,
          raised |-> FALSE, calls |-> Put(EmptyDict, pid, MissingTotal)]
    ELSE LET valid_children_pids == ValidChildren(cmap, pid, snap)
             kids == ChildrenLoop(SortedChildren(valid_children_pids), 1, cmap, snap,
                                  indent + IndentWidth,
                                  [lines |-> <<>>, total |-> ZeroTotal,
                                   raised |-> FALSE, calls |-> EmptyDict])
             total_for_node == NodeTotal(snap[pid], kids.total)
         IN  IF kids.raised \/ LineRaises(snap[pid])
             THEN [kids EXCEPT !.raised = TRUE]
             ELSE [lines |-> WithOwnLine(kids.lines, ProcLine(pid, indent)),
                   total |-> total_for_node,
                   raised |-> FALSE,
                   calls |-> Put(kids.calls, pid, total_for_node)]

\* "for child_pid in sorted_children_pids"
ChildrenLoop(sorted, i, cmap, snap, indent, acc) ==
    IF i > Len(sorted) \/ acc.raised THEN acc
    ELSE LET child == LogTree(sorted[i], cmap, snap, indent)
         IN  ChildrenLoop(sorted, i + 1, cmap, snap, indent,
                          [lines |-> acc.lines \o child.lines,
                           total |-> IF child.raised THEN acc.total
                                     ELSE AddTotals(acc.total, child.total),
                           raised |-> child.raised,
                           calls |-> acc.calls @@ child.calls])

\* "for root_pid in root_pids_to_log"
RECURSIVE RootsLoop(_, _, _, _, _)
RootsLoop(roots, i, cmap, snap, acc) ==
    IF i > Len(roots) \/ acc.raised THEN acc
    ELSE LET tree == LogTree(roots[i], cmap, snap, 0)
         IN  RootsLoop(roots, i + 1, cmap, snap,
                       [lines |-> acc.lines \o tree.lines,
                        raised |-> tree.raised,
                        calls |-> acc.calls @@ tree.calls])

Render ==
    /\ pc = "forest"
    /\ IF root_pids_to_log = <<>>
       THEN /\ block' = <<StampLine, NoneFoundLine>>
            /\ returned' = EmptyDict
            /\ pc' = "rendered"
       ELSE LET out == RootsLoop(root_pids_to_log, 1, children_map,
                                 current_snapshot_data,
                                 [lines |-> <<StampLine>>, raised |-> FALSE,
                                  calls |-> EmptyDict])
            IN  /\ block' = out.lines
                /\ returned' = out.calls
                /\ pc' = IF out.raised THEN "crashed" ELSE "rendered"
    /\ UNCHANGED <<cpu_cores, target_app_name, previous_io_counters,
                   process_objects_cache, current_snapshot_data,
                   all_processes_this_iter, fetched, newly_cached_pids,
                   current_io_snapshot, children_map, root_candidates,
                   target_pids_found, root_pids_to_log, seen,
                   repeat_interval_seconds, sleep_time, oplog,
                   baseline_from,
                   interrupted>>
    /\ UNCHANGED <<timevars, filevars, callvars>>

(***************************************************************************)
(* Section 6 and the top of the loop.                                      *)
(***************************************************************************)
\* The least time the loop sleeps after a cycle: 0.5 s.
MinSleep == 5

\* sleep_time = max(0.5, repeat_interval_seconds - elapsed_time); time.sleep(sleep_time)
Sleep(E) ==
    /\ pc = "rendered"
    /\ elapsed_time' \in E.elapsed
    /\ sleep_time' = Max(MinSleep, repeat_interval_seconds - elapsed_time')
    /\ pc' = "start"
    /\ UNCHANGED <<cpu_cores, target_app_name, previous_io_counters,
                   process_objects_cache, current_snapshot_data,
                   all_processes_this_iter, fetched, newly_cached_pids,
                   current_io_snapshot, children_map, root_candidates,
                   target_pids_found, root_pids_to_log, block, returned, seen,
                   repeat_interval_seconds, oplog, baseline_from,
                   interrupted>>
    /\ since_last_snapshot' = elapsed_time' + sleep_time'
    /\ UNCHANGED <<actual_interval_duration, filevars, callvars>>

\* A variant that does not wait at the top of the loop.
ShortWaitNone(actual) == 0
\* "if actual_interval_duration < 0.5: time.sleep(0.5 - actual_interval_duration)";
\* time.sleep returns after the requested time, the least it may sleep.
ShortWait(actual) == IF actual < MinSleep /\ MinSleep - actual > 0 THEN MinSleep - actual ELSE 0

\* Which cycle the counters are from, seen from the cycle that starts now.
AgedBy(from) ==
    CASE from = "this cycle" -> "the cycle before"
      [] from = "the cycle before" -> "an older cycle"
      [] OTHER -> from

\* The top of "while True": the snapshot of the previous cycle is cleared and the
\* cycle's locals are fresh.
StartCycle ==
    /\ pc = "start"
    /\ current_snapshot_data' = EmptyDict
    /\ current_io_snapshot' = EmptyDict
    /\ newly_cached_pids' = <<>>
    /\ all_processes_this_iter' = <<>>
    /\ fetched' = EmptyDict
    /\ children_map' = EmptyDict
    /\ root_candidates' = {}
    /\ target_pids_found' = {}
    /\ root_pids_to_log' = <<>>
    /\ block' = <<>>
    /\ returned' = EmptyDict
    /\ seen' = seen \cup PidsFound(all_processes_this_iter)
    /\ sleep_time' = 0
    /\ oplog' = <<>>
    /\ baseline_from' = AgedBy(baseline_from)
    /\ pc' = "collect"
    /\ UNCHANGED <<cpu_cores, target_app_name, previous_io_counters,
                   process_objects_cache, repeat_interval_seconds,
                   interrupted>>
    /\ actual_interval_duration' = since_last_snapshot + ShortWait(since_last_snapshot)
    /\ since_last_snapshot' = 0
    /\ elapsed_time' = 0
    /\ UNCHANGED <<filevars, callvars>>

(***************************************************************************)
(* KeyboardInterrupt.                                                      *)
(***************************************************************************)
\* A variant in which the priming block's "except Exception: pass" swallows the
\* interrupt.
AfterInterruptSwallowedInPriming(at) == IF at = "sampled" THEN "primed" ELSE "stopped"
\* No handler inside the loop catches KeyboardInterrupt (they catch Exception and
\* its subclasses): it reaches "except KeyboardInterrupt", after which
\* monitor_like_task_manager returns.
AfterInterrupt(at) == "stopped"

\* The lines section 4 writes for the forest of the cycle.
LinesToWrite ==
    IF root_pids_to_log = <<>> THEN <<StampLine, NoneFoundLine>>
    ELSE RootsLoop(root_pids_to_log, 1, children_map, current_snapshot_data,
                   [lines |-> <<StampLine>>, raised |-> FALSE,
                    calls |-> EmptyDict]).lines

\* KeyboardInterrupt raised in the loop: in the sampling loop after some of the
\* enumerated processes, in section 4 after some of the lines, or between sections
\* and in time.sleep.
Interrupt(E) ==
    /\ pc \in {"start", "collect", "sampled", "primed", "updated", "forest", "rendered"}
    /\ interrupted' = TRUE
    /\ oplog' = Append(oplog, "Monitoring stopped by user.")
    /\ pc' = AfterInterrupt(pc)
    /\ IF pc = "collect"
       THEN /\ \E procs \in Enumerations(E) :
               \E replies \in ReplyMaps(E, PidsFound(procs), process_objects_cache) :
               \E done \in 0..(Len(procs) - 1) :
                  LET acc == CollectLoop(SubSeq(procs, 1, done), replies, 1,
                                         [cache |-> process_objects_cache,
                                          newly |-> <<>>, io |-> EmptyDict,
                                          snap |-> EmptyDict],
                                         previous_io_counters, cpu_cores)
                  IN  /\ all_processes_this_iter' = procs
                      /\ fetched' = [p \in PidsFound(SubSeq(procs, 1, done)) |->
                                        replies[p]]
                      /\ process_objects_cache' = acc.cache
                      /\ newly_cached_pids' = acc.newly
                      /\ current_io_snapshot' = acc.io
                      /\ current_snapshot_data' = acc.snap
            /\ UNCHANGED block
       ELSE IF pc = "forest"
       THEN /\ \E written \in 0..(Len(LinesToWrite) - 1) :
                  block' = SubSeq(LinesToWrite, 1, written)
            /\ UNCHANGED <<all_processes_this_iter, fetched, process_objects_cache,
                           newly_cached_pids, current_io_snapshot,
                           current_snapshot_data>>
       ELSE UNCHANGED <<block, all_processes_this_iter, fetched,
                        process_objects_cache, newly_cached_pids,
                        current_io_snapshot, current_snapshot_data>>
    /\ UNCHANGED <<cpu_cores, target_app_name, previous_io_counters, children_map,
                   root_candidates, target_pids_found, root_pids_to_log, returned,
                   seen, repeat_interval_seconds, sleep_time, baseline_from>>
    /\ UNCHANGED <<timevars, filevars, callvars>>

get_cpu_cores(count) == IF count = NoneInt \/ count = 0 THEN 1 ELSE count

\* The state when the loop is entered: the globals were cleared in __main__.
Init(E) ==
    /\ cpu_cores \in {get_cpu_cores(count) : count \in E.cpu_counts}
    /\ target_app_name \in E.targets
    /\ previous_io_counters = EmptyDict
    /\ process_objects_cache = {}
    /\ current_snapshot_data = EmptyDict
    /\ all_processes_this_iter = <<>>
    /\ fetched = EmptyDict
    /\ newly_cached_pids = <<>>
    /\ current_io_snapshot = EmptyDict
    /\ children_map = EmptyDict
    /\ root_candidates = {}
    /\ target_pids_found = {}
    /\ root_pids_to_log = <<>>
    /\ block = <<>>
    /\ returned = EmptyDict
    /\ seen = {}
    /\ repeat_interval_seconds \in E.intervals
    /\ sleep_time = 0
    /\ oplog = <<>>
    /\ baseline_from = "no cycle"
    /\ interrupted = FALSE
    /\ elapsed_time = 0
    /\ since_last_snapshot \in E.startup
    /\ actual_interval_duration = 0
    /\ snapshot_file = <<>>
    /\ run_number = 1
    /\ args = None
    /\ result = None
    /\ pc = "start"

\* The loop at the top of a later cycle, after StartCycle: the cycle before it
\* enumerated every process and io_counters() gave the same answer for each.
InitMidRun(E) ==
    /\ cpu_cores \in {get_cpu_cores(count) : count \in E.cpu_counts}
    /\ target_app_name \in E.targets
    /\ previous_io_counters \in {[p \in E.pids |-> Counters(c)] : c \in E.before}
    /\ process_objects_cache = E.pids
    /\ current_snapshot_data = EmptyDict
    /\ all_processes_this_iter = <<>>
    /\ fetched = EmptyDict
    /\ newly_cached_pids = <<>>
    /\ current_io_snapshot = EmptyDict
    /\ children_map = EmptyDict
    /\ root_candidates = {}
    /\ target_pids_found = {}
    /\ root_pids_to_log = <<>>
    /\ block = <<>>
    /\ returned = EmptyDict
    /\ seen = E.pids
    /\ repeat_interval_seconds \in E.intervals
    /\ sleep_time = 0
    /\ oplog = <<>>
    /\ baseline_from = "the cycle before"
    /\ interrupted = FALSE
    /\ elapsed_time = 0
    /\ since_last_snapshot = 0
    /\ actual_interval_duration \in
          {e + Max(MinSleep, repeat_interval_seconds - e) : e \in E.elapsed}
    /\ snapshot_file = <<>>
    /\ run_number = 1
    /\ args = None
    /\ result = None
    /\ pc = "collect"

(***************************************************************************)
(* The environments and the specifications.                                *)
(***************************************************************************)
\* Cumulative (read_bytes, write_bytes) pairs io_counters() answers with; between
\* two of them one counter advances and the other regresses.
IoSamples == {<<800, 1000>>, <<1000, 800>>}

\* Counters and their deltas: every io answer of the loop and of the priming block,
\* id reuse, a process that is gone; flat forest, no other fetch fails.
CounterEnv ==
    [pids |-> 1..MaxPid, ppids |-> [p \in 1..MaxPid |-> {0}],
     names |-> {"App"}, statuses |-> {"running"}, orders |-> {"asc"},
     is_running |-> {"yes", "no"}, handles |-> {"created", "NoSuchProcess"},
     cpu |-> OkValue({50}), mem |-> OkValue({4096}),
     io |-> IoOk(IoSamples) \cup {IoError},
     prime |-> IoOk(IoSamples) \cup {PrimeFailed},
     targets |-> {None}, cpu_counts |-> {2},
     intervals |-> {20}, elapsed |-> {3}, startup |-> {0}]

\* Failures: every outcome of the handle and of each fetch, one io answer; a raw
\* CPU value that one core count caps and the other does not.
FaultEnv ==
    [pids |-> 1..MaxPid, ppids |-> [p \in 1..MaxPid |-> {0}],
     names |-> {"App"}, statuses |-> {"running"}, orders |-> {"asc"},
     is_running |-> {"yes"},
     handles |-> {"created", "NoSuchProcess", "AccessDenied"},
     cpu |-> OkValue({150}) \cup {Failed}, mem |-> OkValue({4096}) \cup {Failed},
     io |-> IoOk({<<800, 1000>>}) \cup {IoError, IoOther},
     prime |-> IoOk({<<800, 1000>>}) \cup {PrimeFailed},
     targets |-> {None}, cpu_counts |-> {0, 2},
     intervals |-> {20}, elapsed |-> {3}, startup |-> {0}]

\* Forests: every parent id (None, 0, any process, itself);
\* samples with non-zero metrics and with an error status.
TreeEnv ==
    [pids |-> 1..MaxTreePid,
     ppids |-> [p \in 1..MaxTreePid |-> {NoneInt, 0} \cup 1..MaxTreePid],
     names |-> {"App"}, statuses |-> {"running"}, orders |-> {"asc"},
     is_running |-> {"yes"}, handles |-> {"created"},
     cpu |-> OkValue({50}), mem |-> OkValue({4096}),
     io |-> IoOk(IoSamples) \cup {IoError},
     prime |-> {PrimeFailed},
     before |-> IoOk(IoSamples),
     targets |-> {None}, cpu_counts |-> {1},
     intervals |-> {20}, elapsed |-> {3}, startup |-> {0}]

\* The name filter: a name that matches in another case, a name that is None, a
\* process that is gone when its handle is created.
FilterEnv ==
    [pids |-> 1..MaxTreePid,
     ppids |-> [p \in 1..MaxTreePid |-> {NoneInt, 0} \cup 1..MaxTreePid],
     names |-> {"App", None}, statuses |-> {"running"}, orders |-> {"asc"},
     is_running |-> {"yes", "no"}, handles |-> {"NoSuchProcess"},
     cpu |-> OkValue({50}), mem |-> OkValue({4096}),
     io |-> IoOk({<<800, 1000>>}),
     prime |-> {PrimeFailed},
     before |-> IoOk({<<800, 1000>>}),
     targets |-> {"app"}, cpu_counts |-> {1},
     intervals |-> {20}, elapsed |-> {3}, startup |-> {0}]

\* Orders: both enumeration orders, with and without the filter, names that match
\* and names that do not.
OrderEnv ==
    [pids |-> 1..MaxTreePid,
     ppids |-> [p \in 1..MaxTreePid |-> {NoneInt, 0} \cup 1..MaxTreePid],
     names |-> {"App", "Other"}, statuses |-> {"running"},
     orders |-> {"asc", "desc"},
     is_running |-> {"yes"}, handles |-> {"created"},
     cpu |-> OkValue({50}), mem |-> OkValue({4096}),
     io |-> IoOk({<<800, 1000>>}),
     prime |-> {PrimeFailed},
     before |-> IoOk({<<800, 1000>>}),
     targets |-> {None, "app"}, cpu_counts |-> {1},
     intervals |-> {20}, elapsed |-> {3}, startup |-> {0}]

\* Corrupt samples: a status that is None, a name that is None on a process whose
\* handle cannot be created; proper forests, no filter.
CorruptEnv ==
    [pids |-> 1..MaxTreePid,
     ppids |-> [p \in 1..MaxTreePid |-> {0} \cup 1..(p - 1)],
     names |-> {"App", None}, statuses |-> {"running", None}, orders |-> {"asc"},
     is_running |-> {"yes", "no"}, handles |-> {"NoSuchProcess"},
     cpu |-> OkValue({50}), mem |-> OkValue({4096}),
     io |-> IoOk({<<800, 1000>>}),
     prime |-> {PrimeFailed},
     before |-> IoOk({<<800, 1000>>}),
     targets |-> {None}, cpu_counts |-> {1},
     intervals |-> {20}, elapsed |-> {3}, startup |-> {0}]

\* Interrupts: a flat forest of processes whose fetches succeed.
InterruptEnv ==
    [pids |-> 1..MaxPid, ppids |-> [p \in 1..MaxPid |-> {0}],
     names |-> {"App"}, statuses |-> {"running"}, orders |-> {"asc"},
     is_running |-> {"yes"}, handles |-> {"created"},
     cpu |-> OkValue({50}), mem |-> OkValue({4096}),
     io |-> IoOk(IoSamples),
     prime |-> {PrimeFailed},
     targets |-> {None}, cpu_counts |-> {2},
     intervals |-> {20}, elapsed |-> {3}, startup |-> {0}]

Cycle(E) ==
    \/ StartCycle
    \/ Collect(E)
    \/ CollectFail
    \/ Prime(E)
    \/ UpdateCaches
    \/ BuildForest
    \/ Render
    \/ Sleep(E)

\* The cycle a state at the top of the loop begins, to its sleep.
OneCycle(E) ==
    \/ Collect(E)
    \/ CollectFail
    \/ Prime(E)
    \/ UpdateCaches
    \/ BuildForest
    \/ Render
    \/ Sleep(E)

InitCounter == Init(CounterEnv)
NextCounter == Cycle(CounterEnv)
Spec == InitCounter /\ [][NextCounter]_vars

InitFault == Init(FaultEnv)
NextFault == Cycle(FaultEnv)
SpecFault == InitFault /\ [][NextFault]_vars

\* One cycle of a run that is under way.
InitTree == InitMidRun(TreeEnv)
NextTree == OneCycle(TreeEnv)
SpecTree == InitTree /\ [][NextTree]_vars

InitOrder == InitMidRun(OrderEnv)
NextOrder == OneCycle(OrderEnv)
SpecOrder == InitOrder /\ [][NextOrder]_vars

InitCorrupt == InitMidRun(CorruptEnv)
NextCorrupt == OneCycle(CorruptEnv)
SpecCorrupt == InitCorrupt /\ [][NextCorrupt]_vars

InitInterrupt == Init(InterruptEnv)
NextInterrupt == Cycle(InterruptEnv) \/ Interrupt(InterruptEnv)
SpecInterrupt == InitInterrupt /\ [][NextInterrupt]_vars

InitFilter == InitMidRun(FilterEnv)
NextFilter == OneCycle(FilterEnv)
SpecFilter == InitFilter /\ [][NextFilter]_vars

\* Clock readings: intervals of 1 s and 2 s; processing that takes no measurable
\* time, less than the interval, more than the interval; the loop entered at once
\* or 0.2 s after last_snapshot_time was set.  One answer for every fetch.
TimingEnv ==
    [pids |-> 1..MaxPid, ppids |-> [p \in 1..MaxPid |-> {0}],
     names |-> {"App"}, statuses |-> {"running"}, orders |-> {"asc"},
     is_running |-> {"yes"}, handles |-> {"created"},
     cpu |-> OkValue({50}), mem |-> OkValue({4096}),
     io |-> IoOk({<<800, 1000>>}),
     prime |-> {PrimeFailed},
     targets |-> {None}, cpu_counts |-> {2},
     intervals |-> {10, 20}, elapsed |-> {0, 3, 12, 25}, startup |-> {0, 2}]

InitTiming == Init(TimingEnv)
NextTiming == Cycle(TimingEnv)
SpecTiming == InitTiming /\ [][NextTiming]_vars

(***************************************************************************)
(* log_process_tree called on its own.                                     *)
(***************************************************************************)
\* What psutil answers for a process with a cached handle whose fetches succeed.
GoodReply ==
    [is_running |-> "yes", handle |-> "cached", cpu |-> [res |-> "ok", v |-> 50],
     mem |-> [res |-> "ok", v |-> 4096],
     io |-> [res |-> "ok", read_bytes |-> 1000, write_bytes |-> 800],
     prime |-> SkippedIo]

\* Proper forests of processes that are named and running.
CallEnv ==
    [pids |-> 1..MaxTreePid,
     ppids |-> [p \in 1..MaxTreePid |-> {0} \cup 1..(p - 1)],
     names |-> {"App"}, statuses |-> {"running"}, orders |-> {"asc"}]

\* The globals and the arguments of a call of log_process_tree: children_map is the
\* map section 3 builds from the samples of a forest, current_snapshot_data holds
\* some of these samples, pid is any id and indent the indent of depth 0 or 1.
InitLogTree ==
    /\ \E procs \in Enumerations(CallEnv) :
       \E kept \in SUBSET (1..MaxTreePid) :
          LET snap == [p \in PidsFound(procs) |->
                          LET i == CHOOSE j \in DOMAIN procs : procs[j].pid = p
                          IN  FullEntry(procs[i], GoodReply,
                                        [q \in {p} |-> [read_bytes |-> 800,
                                                        write_bytes |-> 1000]], 1)]
              acc == ForestLoop(SnapshotOrder(procs), 1, snap, None,
                                [children |-> EmptyDict, roots |-> {},
                                 targets |-> {}, raised |-> FALSE])
          IN  /\ all_processes_this_iter = procs
              /\ children_map = acc.children
              /\ root_candidates = acc.roots
              /\ current_snapshot_data = [p \in DOMAIN snap \cap kept |-> snap[p]]
    /\ args \in [pid : 1..MaxTreePid, indent : {0, IndentWidth}]
    /\ result = None
    /\ cpu_cores = 1
    /\ target_app_name = None
    /\ previous_io_counters = EmptyDict
    /\ process_objects_cache = {}
    /\ fetched = EmptyDict
    /\ newly_cached_pids = <<>>
    /\ current_io_snapshot = EmptyDict
    /\ target_pids_found = {}
    /\ root_pids_to_log = <<>>
    /\ block = <<>>
    /\ returned = EmptyDict
    /\ seen = {}
    /\ repeat_interval_seconds = 20
    /\ sleep_time = 0
    /\ oplog = <<>>
    /\ baseline_from = "the cycle before"
    /\ interrupted = FALSE
    /\ elapsed_time = 0
    /\ since_last_snapshot = 0
    /\ actual_interval_duration = 20
    /\ snapshot_file = <<>>
    /\ run_number = 1
    /\ pc = "call"

\* log_process_tree(pid, children_map, cpu_cores, interval_duration, txt_handle,
\* indent): the lines it wrote and the totals it returned.
CallLogTree ==
    /\ pc = "call"
    /\ result' = LogTree(args.pid, children_map, current_snapshot_data, args.indent)
    /\ pc' = "returned"
    /\ UNCHANGED <<cpu_cores, target_app_name, previous_io_counters,
                   process_objects_cache, current_snapshot_data,
                   all_processes_this_iter, fetched, newly_cached_pids,
                   current_io_snapshot, children_map, root_candidates,
                   target_pids_found, root_pids_to_log, block, returned, seen,
                   repeat_interval_seconds, sleep_time, oplog, baseline_from,
                   interrupted, timevars, filevars, args>>

NextLogTree == CallLogTree
SpecLogTree == InitLogTree /\ [][NextLogTree]_vars

(***************************************************************************)
(* The name field of a line of log_process_tree.                           *)
(***************************************************************************)
\* Longest process name, deepest node and largest number of children of the
\* name-field specification.
MaxNameLen == 48
MaxDepth == 24
MaxChildren == 11

\* The width of the name column at depth 0.
NameColumn == 45

\* str(n) for 0 <= n < 100, as a sequence of characters
Str(n) ==
    LET digit(d) == <<"0", "1", "2", "3", "4", "5", "6", "7", "8", "9">>[d + 1]
    IN  IF n < 10 THEN <<digit(n)>> ELSE <<digit(n \div 10), digit(n % 10)>>

\* display_name: the name, and " (n)" when the node has n > 0 valid children
DisplayName(process_name, valid_children) ==
    IF valid_children > 0
    THEN process_name \o <<" ", "(">> \o Str(valid_children) \o <<")">>
    ELSE process_name

\* A variant without the floor of 1.
NameFieldLengthNoFloor(indent) == NameColumn - indent
\* name_field_length = max(1, 45 - len(indent))
NameFieldLength(indent) == Max(1, NameColumn - indent)

\* truncated_display_name
Truncated(display_name, name_field_length) ==
    IF Len(display_name) > name_field_length /\ name_field_length > 3
    THEN SubSeq(display_name, 1, name_field_length - 3) \o <<".", ".", ".">>
    ELSE IF Len(display_name) > name_field_length
    THEN SubSeq(display_name, 1, name_field_length)
    ELSE display_name

\* The loop's variables while a function is called on its own.
NoLoopState ==
    /\ cpu_cores = 1
    /\ target_app_name = None
    /\ previous_io_counters = EmptyDict
    /\ process_objects_cache = {}
    /\ current_snapshot_data = EmptyDict
    /\ all_processes_this_iter = <<>>
    /\ fetched = EmptyDict
    /\ newly_cached_pids = <<>>
    /\ current_io_snapshot = EmptyDict
    /\ children_map = EmptyDict
    /\ root_candidates = {}
    /\ target_pids_found = {}
    /\ root_pids_to_log = <<>>
    /\ block = <<>>
    /\ returned = EmptyDict
    /\ seen = {}
    /\ repeat_interval_seconds = 20
    /\ sleep_time = 0
    /\ oplog = <<>>
    /\ baseline_from = "no cycle"
    /\ interrupted = FALSE
    /\ elapsed_time = 0
    /\ since_last_snapshot = 0
    /\ actual_interval_duration = 0
    /\ snapshot_file = <<>>
    /\ run_number = 1

\* A node at depth 0..MaxDepth with a name of 0..MaxNameLen characters and
\* 0..MaxChildren valid children.
InitNameField ==
    /\ args \in [name_length : 0..MaxNameLen, valid_children : 0..MaxChildren,
                 depth : 0..MaxDepth]
    /\ result = None
    /\ NoLoopState
    /\ pc = "call"

\* Lines 197-202 and 227-235 of log_process_tree for the node of args: indent is
\* INDENT_STRING repeated depth times.
FormatNameField ==
    /\ pc = "call"
    /\ LET process_name == [i \in 1..args.name_length |-> "n"]
           indent == args.depth * IndentWidth
           display_name == DisplayName(process_name, args.valid_children)
           name_field_length == NameFieldLength(indent)
       IN  result' = [display_name |-> display_name,
                      name_field_length |-> name_field_length,
                      truncated_display_name |->
                          Truncated(display_name, name_field_length)]
    /\ pc' = "returned"
    /\ UNCHANGED <<cpu_cores, target_app_name, previous_io_counters,
                   process_objects_cache, current_snapshot_data,
                   all_processes_this_iter, fetched, newly_cached_pids,
                   current_io_snapshot, children_map, root_candidates,
                   target_pids_found, root_pids_to_log, block, returned, seen,
                   repeat_interval_seconds, sleep_time, oplog, baseline_from,
                   interrupted, timevars, filevars, args>>

NextNameField == FormatNameField
SpecNameField == InitNameField /\ [][NextNameField]_vars

(***************************************************************************)
(* The snapshot file across runs of monitor_like_task_manager.             *)
(***************************************************************************)
\* Number of runs, and the file length up to which a cycle is started.
MaxRuns == 3
MaxFileLines == 7

HeaderLine == [kind |-> "header", pid |-> 0, indent |-> 0]
SeparatorLine == [kind |-> "separator", pid |-> 0, indent |-> 0]

\* A variant that opens the file for writing, which truncates it.
OpenForWriting(content) == <<>>
\* open(SNAPSHOT_FILENAME_TXT, 'a'): the content stays, writes go to the end
OpenForAppending(content) == content

\* A variant that writes the header in every run.
NeedsHeaderAlways(size) == TRUE
\* os.path.getsize(SNAPSHOT_FILENAME_TXT) == 0
NeedsHeader(size) == size = 0

\* The two writes of the header.
HeaderLines(content) ==
    IF NeedsHeader(Len(content)) THEN <<HeaderLine, SeparatorLine>> ELSE <<>>

\* The blocks section 4 writes in a cycle: no process found, or a tree of one line.
Blocks == {<<StampLine, NoneFoundLine>>, <<StampLine, ProcLine(1, 0)>>}

\* The first run: the file does not exist or is empty.
InitFile ==
    /\ NoLoopState
    /\ args = None
    /\ result = None
    /\ pc = "open"

\* Lines 296-304: the file is opened and the header is written if it is empty.
OpenSnapshotFile ==
    /\ pc = "open"
    /\ snapshot_file' = OpenForAppending(snapshot_file)
                           \o HeaderLines(OpenForAppending(snapshot_file))
    /\ pc' = "loop"
    /\ UNCHANGED <<cpu_cores, target_app_name, previous_io_counters,
                   process_objects_cache, current_snapshot_data,
                   all_processes_this_iter, fetched, newly_cached_pids,
                   current_io_snapshot, children_map, root_candidates,
                   target_pids_found, root_pids_to_log, block, returned, seen,
                   repeat_interval_seconds, sleep_time, oplog, baseline_from,
                   interrupted, timevars, run_number, callvars>>

\* KeyboardInterrupt after open() and before the loop: some of the header's writes
\* were made; leaving the with statement closes the file.
InterruptOpening ==
    /\ pc = "open"
    /\ \E written \in 0..Len(HeaderLines(OpenForAppending(snapshot_file))) :
          snapshot_file' =
              OpenForAppending(snapshot_file)
                 \o SubSeq(HeaderLines(OpenForAppending(snapshot_file)), 1, written)
    /\ interrupted' = TRUE
    /\ pc' = "closed"
    /\ UNCHANGED <<cpu_cores, target_app_name, previous_io_counters,
                   process_objects_cache, current_snapshot_data,
                   all_processes_this_iter, fetched, newly_cached_pids,
                   current_io_snapshot, children_map, root_candidates,
                   target_pids_found, root_pids_to_log, block, returned, seen,
                   repeat_interval_seconds, sleep_time, oplog, baseline_from,
                   timevars, run_number, callvars>>

\* One cycle of the loop, as far as the file goes: section 4 appends its block.
AppendBlock ==
    /\ pc = "loop"
    /\ Len(snapshot_file) < MaxFileLines
    /\ \E written \in Blocks :
          /\ block' = written
          /\ snapshot_file' = snapshot_file \o written
    /\ UNCHANGED <<cpu_cores, target_app_name, previous_io_counters,
                   process_objects_cache, current_snapshot_data,
                   all_processes_this_iter, fetched, newly_cached_pids,
                   current_io_snapshot, children_map, root_candidates,
                   target_pids_found, root_pids_to_log, returned, seen,
                   repeat_interval_seconds, sleep_time, oplog, baseline_from,
                   interrupted, timevars, run_number, callvars, pc>>

\* The run ends (KeyboardInterrupt or an exception in the loop), between two cycles
\* or in section 4 after the timestamp line; the file is closed.
EndRun ==
    /\ pc = "loop"
    /\ \E written \in {<<>>, <<StampLine>>} :
          /\ block' = written
          /\ snapshot_file' = snapshot_file \o written
    /\ pc' = "closed"
    /\ UNCHANGED <<cpu_cores, target_app_name, previous_io_counters,
                   process_objects_cache, current_snapshot_data,
                   all_processes_this_iter, fetched, newly_cached_pids,
                   current_io_snapshot, children_map, root_candidates,
                   target_pids_found, root_pids_to_log, returned, seen,
                   repeat_interval_seconds, sleep_time, oplog, baseline_from,
                   interrupted, timevars, run_number, callvars>>

\* The script is started again with the same snapshot file.
RunAgain ==
    /\ pc = "closed"
    /\ run_number < MaxRuns
    /\ run_number' = run_number + 1
    /\ interrupted' = FALSE
    /\ block' = <<>>
    /\ pc' = "open"
    /\ UNCHANGED <<cpu_cores, target_app_name, previous_io_counters,
                   process_objects_cache, current_snapshot_data,
                   all_processes_this_iter, fetched, newly_cached_pids,
                   current_io_snapshot, children_map, root_candidates,
                   target_pids_found, root_pids_to_log, returned, seen,
                   repeat_interval_seconds, sleep_time, oplog, baseline_from,
                   timevars, snapshot_file, callvars>>

NextFile ==
    \/ OpenSnapshotFile
    \/ InterruptOpening
    \/ AppendBlock
    \/ EndRun
    \/ RunAgain
SpecFile == InitFile /\ [][NextFile]_vars

(***************************************************************************)
(* The memory and disk columns of a line of log_process_tree.              *)
(* Intervals are in hundredths of a second here; a rate is a fraction      *)
(* num / den of bytes per hundredth of a second; a displayed number is in  *)
(* tenths.  The products stay below 2^31.                                  *)
(***************************************************************************)
\* Largest memory total, in KB, of the column specification.
MaxWsKb == 104

\* Bytes in a MB: format_bytes_to_mb divides by 1024 * 1024.
BytesPerMb == 1048576

\* f"{x:.1f}" of x = num / den >= 0: the nearest tenth, a tie to the even one
RoundTenths(num, den) ==
    LET q == (num * 10) \div den
        r == (num * 10) % den
    IN  IF 2 * r > den THEN q + 1
        ELSE IF 2 * r = den THEN q + (q % 2)
        ELSE q

\* A variant that shows every total below 0.1 MB as 0.0 MB.
MemDisplayZeroBelow(ws_kb) ==
    IF ws_kb * 1024 * 10 >= BytesPerMb
    THEN [text |-> "n.n MB", tenths |-> RoundTenths(ws_kb * 1024, BytesPerMb)]
    ELSE [text |-> "n.n MB", tenths |-> 0]
\* mem_display: "n.n MB" from 0.1 MB, "0.0 MB" for a total of 0 KB, otherwise
\* "< 0.1 MB"
MemDisplay(ws_kb) ==
    IF ws_kb * 1024 * 10 >= BytesPerMb
    THEN [text |-> "n.n MB", tenths |-> RoundTenths(ws_kb * 1024, BytesPerMb)]
    ELSE IF ws_kb = 0 THEN [text |-> "n.n MB", tenths |-> 0]
    ELSE [text |-> "< 0.1 MB", tenths |-> 0]

\* disk_read_rate_bps, disk_write_rate_bps
DiskRate(delta_bytes, interval_duration) ==
    IF interval_duration > 1
    THEN [num |-> delta_bytes, den |-> interval_duration]
    ELSE [num |-> 0, den |-> 1]

\* format_rate_mbps: the tenths of the "n.n MB/s" it returns; "0.0 MB/s" is 0
\* (num / den bytes per 0.01 s are 25 num / (BytesPerMb / 4) den MB/s)
format_rate_mbps(rate) ==
    IF rate.num * 625 < (BytesPerMb \div 16) * rate.den
    THEN 0
    ELSE RoundTenths(rate.num * 25, (BytesPerMb \div 4) * rate.den)

\* disk_display
DiskDisplay(disk_read_display, disk_write_display) ==
    IF disk_read_display = 0 /\ disk_write_display = 0 THEN <<0>>
    ELSE <<disk_read_display, disk_write_display>>

\* Cumulative deltas around the display threshold at intervals of 0.5 s and 1 s,
\* and of several MB.
DeltaSamples == {0, 1, 5242, 5243, 10485, 10486, 1048576, 2097152}
\* interval_duration: none, 0.01 s, 0.02 s, 0.5 s, 1 s
IntervalSamples == {0, 1, 2, 50, 100}

\* The totals of a node and the interval of the cycle.
InitColumns ==
    /\ args \in [ws_kb : 0..MaxWsKb, delta_read_bytes : DeltaSamples,
                 delta_write_bytes : {0, 10486}, interval_duration : IntervalSamples]
    /\ result = None
    /\ NoLoopState
    /\ pc = "call"

\* Lines 205-220 of log_process_tree for the totals of args.
FormatColumns ==
    /\ pc = "call"
    /\ LET disk_read_rate_bps == DiskRate(args.delta_read_bytes, args.interval_duration)
           disk_write_rate_bps ==
               DiskRate(args.delta_write_bytes, args.interval_duration)
           disk_read_display == format_rate_mbps(disk_read_rate_bps)
           disk_write_display == format_rate_mbps(disk_write_rate_bps)
       IN  result' = [mem_display |-> MemDisplay(args.ws_kb),
                      disk_read_rate_bps |-> disk_read_rate_bps,
                      disk_write_rate_bps |-> disk_write_rate_bps,
                      disk_read_display |-> disk_read_display,
                      disk_write_display |-> disk_write_display,
                      disk_display |-> DiskDisplay(disk_read_display,
                                                   disk_write_display)]
    /\ pc' = "returned"
    /\ UNCHANGED <<cpu_cores, target_app_name, previous_io_counters,
                   process_objects_cache, current_snapshot_data,
                   all_processes_this_iter, fetched, newly_cached_pids,
                   current_io_snapshot, children_map, root_candidates,
                   target_pids_found, root_pids_to_log, block, returned, seen,
                   repeat_interval_seconds, sleep_time, oplog, baseline_from,
                   interrupted, timevars, filevars, args>>

NextColumns == FormatColumns
SpecColumns == InitColumns /\ [][NextColumns]_vars

(***************************************************************************)
(* Properties.                                                             *)
(***************************************************************************)
Sampled == {"sampled", "primed", "updated", "forest", "rendered"}
Enumerated == PidsFound(all_processes_this_iter)
HandleFailed(p) == fetched[p].handle \in HandleErrors

RECURSIVE SumOver(_, _, _)
SumOver(S, f, field) ==
    IF S = {} THEN 0
    ELSE LET x == CHOOSE y \in S : TRUE
         IN  f[x][field] + SumOver(S \ {x}, f, field)

\* The ids listed under pid in children_map that are in the current snapshot.
LiveChildren(pid) ==
    {c \in Range(ChildrenOf(children_map, pid)) : c \in DOMAIN current_snapshot_data}

\* C1: the totals returned for a node are the node's own values plus the sums of
\* the totals returned for its live children, for CPU, memory KB, read delta and
\* write delta; the sums are not clamped.
TotalsAreAdditive ==
    pc = "rendered" =>
        \A p \in DOMAIN returned :
            LET own == current_snapshot_data[p]
                kids == LiveChildren(p)
            IN  /\ kids \subseteq DOMAIN returned
                /\ returned[p].cpu = own.cpu_percent + SumOver(kids, returned, "cpu")
                /\ returned[p].ws_kb = own.mem_ws_kb + SumOver(kids, returned, "ws_kb")
                /\ returned[p].delta_read_bytes =
                      own.delta_read_bytes + SumOver(kids, returned, "delta_read_bytes")
                /\ returned[p].delta_write_bytes =
                      own.delta_write_bytes
                      + SumOver(kids, returned, "delta_write_bytes")

\* A parent with two live children was rendered; its CPU total is the three shares
\* together, which is above 100.
TwoChildrenSummed ==
    /\ pc = "rendered"
    /\ \E p \in DOMAIN returned :
          /\ Cardinality(LiveChildren(p)) = 2
          /\ \A c \in LiveChildren(p) : returned[c].cpu = 50
          /\ returned[p].cpu = 150
          /\ returned[p].delta_read_bytes > 0

\* C2: with an entry in the counter cache of the previous cycle and a successful
\* io fetch, each delta is max(0, current - cached); no sample ever carries a
\* negative delta.
DeltaIsClampedDifference ==
    /\ pc = "sampled" =>
          \A p \in Enumerated :
              (/\ ~HandleFailed(p)
               /\ fetched[p].io.res = "ok"
               /\ p \in DOMAIN previous_io_counters) =>
                  LET dr == fetched[p].io.read_bytes - previous_io_counters[p].read_bytes
                      dw == fetched[p].io.write_bytes
                            - previous_io_counters[p].write_bytes
                  IN  /\ current_snapshot_data[p].delta_read_bytes =
                            (IF dr > 0 THEN dr ELSE 0)
                      /\ current_snapshot_data[p].delta_write_bytes =
                            (IF dw > 0 THEN dw ELSE 0)
    /\ \A p \in DOMAIN current_snapshot_data :
          /\ current_snapshot_data[p].delta_read_bytes >= 0
          /\ current_snapshot_data[p].delta_write_bytes >= 0

\* The read counter regressed from 1000 to 800 while the write counter advanced.
CounterRegressed ==
    /\ pc = "sampled"
    /\ \E p \in Enumerated :
          /\ ~HandleFailed(p)
          /\ p \in DOMAIN previous_io_counters
          /\ fetched[p].io.res = "ok"
          /\ previous_io_counters[p].read_bytes = 1000
          /\ fetched[p].io.read_bytes = 800
          /\ current_snapshot_data[p].delta_read_bytes = 0
          /\ current_snapshot_data[p].delta_write_bytes = 200

\* The counters fetched for pid in this cycle that the next cycle starts from: the
\* priming fetch when it succeeded, the loop's fetch otherwise.
BaselineFetched(p) ==
    IF fetched[p].prime.res = "ok" THEN Counters(fetched[p].prime)
    ELSE Counters(fetched[p].io)
HasBaseline(p) ==
    /\ ~HandleFailed(p)
    /\ fetched[p].io.res = "ok" \/ fetched[p].prime.res = "ok"

ParentAbsent(p) ==
    \/ current_snapshot_data[p].ppid = NoneInt
    \/ current_snapshot_data[p].ppid = 0
    \/ current_snapshot_data[p].ppid \notin DOMAIN current_snapshot_data

\* C4: an id is in the root set iff its parent id is None, 0 or not a key of the
\* current snapshot; without a filter every such id is rendered as a top-level
\* tree.
RootIffParentAbsent ==
    /\ pc \in {"forest", "rendered"} =>
          /\ root_candidates = {p \in DOMAIN current_snapshot_data : ParentAbsent(p)}
          /\ target_app_name = None => Range(root_pids_to_log) = root_candidates
    /\ (pc = "rendered" /\ target_app_name = None) =>
          \A p \in root_candidates : \E i \in DOMAIN block : block[i] = ProcLine(p, 0)

\* A process whose parent id is neither None nor 0 and was not enumerated is a
\* root and has its top-level line, next to a process that is not a root.
OrphanIsRoot ==
    /\ pc = "rendered"
    /\ \E p \in root_candidates :
          /\ current_snapshot_data[p].ppid \notin {NoneInt, 0}
          /\ current_snapshot_data[p].ppid \notin DOMAIN current_snapshot_data
          /\ \E i \in DOMAIN block : block[i] = ProcLine(p, 0)
    /\ DOMAIN current_snapshot_data \ root_candidates # {}

\* The statuses of the error/terminated category.
ErrorCategory ==
    {"terminated", "access denied", "cpu error", "mem error", "io error", "fetch error"}

\* Whether root is pid or an ancestor of pid through the parent ids of the snapshot.
RECURSIVE IsUnder(_, _, _)
IsUnder(pid, root, fuel) ==
    \/ pid = root
    \/ /\ fuel > 0
       /\ IsChild(current_snapshot_data[pid].ppid, DOMAIN current_snapshot_data)
       /\ IsUnder(current_snapshot_data[pid].ppid, root, fuel - 1)

Subtree(root) ==
    {p \in DOMAIN current_snapshot_data :
        IsUnder(p, root, Cardinality(DOMAIN current_snapshot_data))}

OneSamplePerEnumerated ==
    pc \in Sampled =>
        /\ DOMAIN current_snapshot_data = Enumerated
        /\ \A i \in DOMAIN all_processes_this_iter :
              current_snapshot_data[all_processes_this_iter[i].pid].ppid =
                  all_processes_this_iter[i].ppid

\* One process whose handle could not be created and one whose three fetches
\* failed are both in the snapshot.
FailedProcessesSampled ==
    /\ pc = "sampled"
    /\ \E p, q \in DOMAIN current_snapshot_data :
          /\ HandleFailed(p)
          /\ ~HandleFailed(q)
          /\ fetched[q].cpu.res = "fail"
          /\ fetched[q].mem.res = "fail"
          /\ fetched[q].io.res = "other"

AnyFetchFailed(p) ==
    \/ HandleFailed(p)
    \/ fetched[p].cpu.res = "fail"
    \/ fetched[p].mem.res = "fail"
    \/ fetched[p].io.res \in {"oserror", "other"}

MetricsAllZero(sample) ==
    /\ sample.cpu_percent = 0
    /\ sample.mem_ws_kb = 0
    /\ sample.delta_read_bytes = 0
    /\ sample.delta_write_bytes = 0

FailureAnnotations ==
    {"access denied", "cpu error", "mem error", "io error", "fetch error"}

\* C7: a process for which the handle creation or the CPU, memory or io fetch
\* failed has a sample whose four metrics are zero and whose status is one of
\* access denied, cpu error, mem error, io error, fetch error.
FailedFetchZeroedAndAnnotated ==
    pc = "sampled" =>
        \A p \in Enumerated :
            AnyFetchFailed(p) =>
                /\ MetricsAllZero(current_snapshot_data[p])
                /\ current_snapshot_data[p].status \in FailureAnnotations

\* C8: a process that is gone when its handle is created has a sample whose
\* status is 'terminated' and whose four metrics are zero.
DisappearedIsTerminated ==
    pc = "sampled" =>
        \A p \in Enumerated :
            fetched[p].handle = "NoSuchProcess" =>
                /\ current_snapshot_data[p].status = "terminated"
                /\ MetricsAllZero(current_snapshot_data[p])

\* C9: after the cache update previous_io_counters has an entry exactly for the
\* enumerated processes whose io fetch or priming fetch succeeded in this cycle,
\* each the counters fetched in this cycle.
CounterCacheIsThisCycle ==
    pc \in {"updated", "forest", "rendered"} =>
        /\ DOMAIN previous_io_counters = {p \in Enumerated : HasBaseline(p)}
        /\ \A p \in DOMAIN previous_io_counters :
              previous_io_counters[p] = BaselineFetched(p)

\* A process of an earlier cycle is not enumerated and has no entry; a process
\* enumerated again has its counters of this cycle.
StaleEntryDropped ==
    /\ pc = "updated"
    /\ seen \ Enumerated # {}
    /\ seen \cap DOMAIN previous_io_counters \subseteq Enumerated
    /\ \E p \in Enumerated \cap seen :
          HasBaseline(p) /\ previous_io_counters[p] = BaselineFetched(p)

\* No sample of the current snapshot has a name equal to the filter.
NoSampleMatches ==
    \A p \in DOMAIN current_snapshot_data :
        \/ current_snapshot_data[p].name = None
        \/ Lower(current_snapshot_data[p].name) # Lower(target_app_name)

\* C10: with a filter that no sample of the snapshot matches, the cycle's block
\* is the timestamp line and the 'No processes found matching criteria' line, with
\* no process line.
NoMatchIsLabelled ==
    (/\ pc \in {"rendered", "crashed"}
     /\ target_app_name # None
     /\ NoSampleMatches) =>
        block = <<StampLine, NoneFoundLine>>

\* The samples of the current snapshot whose name equals the filter, whatever the
\* case.
Matching ==
    {p \in DOMAIN current_snapshot_data :
        /\ current_snapshot_data[p].name # None
        /\ Lower(current_snapshot_data[p].name) = Lower(target_app_name)}

\* The roots, by the root test, with a matching process in their subtree.
RootsOverMatching ==
    {r \in DOMAIN current_snapshot_data :
        ParentAbsent(r) /\ Subtree(r) \cap Matching # {}}

\* C11: with a filter that at least one sample matches, the roots chosen for
\* rendering are exactly the roots whose subtree has a matching process; the set
\* is not empty and every matching process is in the subtree of a chosen root and
\* has its line in the block.
FilteredRootsCoverMatches ==
    /\ (pc \in {"forest", "rendered"} /\ target_app_name # None /\ Matching # {}) =>
          /\ Range(root_pids_to_log) = RootsOverMatching
          /\ root_pids_to_log # <<>>
          /\ \A m \in Matching : \E r \in Range(root_pids_to_log) : m \in Subtree(r)
    /\ (pc = "rendered" /\ target_app_name # None) =>
          \A m \in Matching : \E i \in DOMAIN block :
              block[i].kind = "process" /\ block[i].pid = m

\* The lines of the tree under pid, from the samples and their parent ids alone:
\* the subtrees of the children in ascending id order, then the line of pid.
RECURSIVE CanonLines(_, _)
RECURSIVE CanonOver(_, _)
CanonLines(pid, indent) ==
    LET kids == {c \in DOMAIN current_snapshot_data :
                    /\ current_snapshot_data[c].ppid = pid
                    /\ pid # 0}
    IN  Append(CanonOver(SortedSeq(kids), indent + IndentWidth), ProcLine(pid, indent))
CanonOver(pids, indent) ==
    IF pids = <<>> THEN <<>>
    ELSE CanonLines(Head(pids), indent) \o CanonOver(Tail(pids), indent)

\* The roots a cycle renders, from the samples, their parent ids and the filter.
ChosenRoots ==
    IF target_app_name = None
    THEN {r \in DOMAIN current_snapshot_data : ParentAbsent(r)}
    ELSE RootsOverMatching

\* C12: the block of a cycle is determined by the samples, their parent ids and
\* the filter, whatever the enumeration order: the roots in ascending id order and
\* under every node the subtrees of its children in ascending id order.
RenderIsDeterministic ==
    pc = "rendered" =>
        block = IF ChosenRoots = {} THEN <<StampLine, NoneFoundLine>>
                ELSE <<StampLine>> \o CanonOver(SortedSeq(ChosenRoots), 0)

\* The enumeration was in descending id order; a root with two children and a
\* second root are rendered in ascending order.
DescendingEnumerationAscendingLines ==
    /\ pc = "rendered"
    /\ Len(all_processes_this_iter) = 3
    /\ all_processes_this_iter[1].pid > all_processes_this_iter[2].pid
    /\ \E r \in Range(root_pids_to_log) :
          /\ Len(ChildrenOf(children_map, r)) = 2
          /\ children_map[r][1] > children_map[r][2]
          /\ \E i \in DOMAIN block :
                /\ i + 1 \in DOMAIN block
                /\ block[i] = ProcLine(children_map[r][2], IndentWidth)
                /\ block[i + 1] = ProcLine(children_map[r][1], IndentWidth)

\* C13: every sample of the current snapshot has a CPU share from 0 to 100; with
\* a successful query on a cached handle it is the raw value divided by the core
\* count, or 100 where that is more.
CpuShareWithinRange ==
    /\ cpu_cores >= 1
    /\ \A p \in DOMAIN current_snapshot_data :
          /\ current_snapshot_data[p].cpu_percent >= 0
          /\ current_snapshot_data[p].cpu_percent <= 100
    /\ pc = "sampled" =>
          \A p \in Enumerated :
              (fetched[p].handle = "cached" /\ fetched[p].cpu.res = "ok") =>
                  LET scaled == fetched[p].cpu.v \div cpu_cores
                  IN  current_snapshot_data[p].cpu_percent =
                          (IF scaled > 100 THEN 100 ELSE scaled)

\* A raw value of 150 with one detected core is stored as 100, next to a sample
\* of a new handle.
RawAboveSaturationCapped ==
    /\ pc = "sampled"
    /\ cpu_cores = 1
    /\ \E p \in Enumerated :
          /\ fetched[p].handle = "cached"
          /\ fetched[p].cpu.res = "ok"
          /\ fetched[p].cpu.v = 150
          /\ current_snapshot_data[p].cpu_percent = 100
    /\ \E q \in Enumerated : fetched[q].handle = "created"

\* The pids that have a line in the block.
Rendered == {block[i].pid : i \in {j \in DOMAIN block : block[j].kind # "stamp"}}

\* C14: a sample whose name or status is None does not abort the rendering: every
\* sample under a chosen root has its line in the block and the loop goes on to
\* the next cycle.
CorruptNodeDoesNotAbort ==
    /\ pc # "crashed"
    /\ (pc = "rendered" /\ target_app_name = None) =>
          DOMAIN current_snapshot_data \subseteq Rendered

\* The loop is back at its top after a cycle whose data collection failed.
Abandoned == pc = "start" /\ oplog # <<>>

\* C15: when the enumeration raises, the failure is in the operational log, the
\* cycle has no forest and no block, the loop has slept the whole configured
\* interval and the next cycle can start.
FailedCollectionAbandonsCycle ==
    /\ oplog # <<>> => pc = "start"
    /\ Abandoned =>
          /\ children_map = EmptyDict
          /\ root_candidates = {}
          /\ root_pids_to_log = <<>>
          /\ returned = EmptyDict
          /\ block = <<>>
          /\ sleep_time = repeat_interval_seconds
          /\ ENABLED StartCycle

\* A cycle was abandoned after a cycle that had stored counters; the loop slept 2 s.
AbandonedAfterGoodCycle ==
    /\ Abandoned
    /\ previous_io_counters # EmptyDict
    /\ sleep_time = 20
    /\ sleep_time # Max(MinSleep, repeat_interval_seconds - 3)

\* A cycle has ended: the loop slept after it, or the loop was left.
CycleEnded == pc = "crashed" \/ (pc = "start" /\ sleep_time # 0)

\* C16: every cycle leaves one complete block: the timestamp line followed by the
\* 'no processes found' line or by all the lines of every chosen tree.
EveryCycleOneCompleteBlock ==
    CycleEnded =>
        block = IF ChosenRoots = {} THEN <<StampLine, NoneFoundLine>>
                ELSE <<StampLine>> \o CanonOver(SortedSeq(ChosenRoots), 0)

\* The status of the enumeration of pid.
EnumeratedStatus(p) ==
    LET i == CHOOSE j \in DOMAIN all_processes_this_iter :
                 all_processes_this_iter[j].pid = p
    IN  all_processes_this_iter[i].status

\* C17: the status of a sample is the annotation of the earliest failing fetch in
\* the order cpu, memory, io, unexpected; a later failure does not overwrite it.
EarliestFailureWins ==
    pc = "sampled" =>
        \A p \in Enumerated :
            ~HandleFailed(p) =>
                current_snapshot_data[p].status =
                    IF fetched[p].cpu.res = "fail" THEN "cpu error"
                    ELSE IF fetched[p].mem.res = "fail" THEN "mem error"
                    ELSE IF fetched[p].io.res = "oserror" THEN "io error"
                    ELSE IF fetched[p].io.res = "other" THEN "fetch error"
                    ELSE EnumeratedStatus(p)

\* All three fetches failed for one process, memory and io for another.
SeveralFetchesFailed ==
    /\ pc = "sampled"
    /\ \E p, q \in Enumerated :
          /\ fetched[p].cpu.res = "fail"
          /\ fetched[p].mem.res = "fail"
          /\ fetched[p].io.res = "oserror"
          /\ current_snapshot_data[p].status = "cpu error"
          /\ fetched[q].cpu.res = "ok"
          /\ fetched[q].mem.res = "fail"
          /\ fetched[q].io.res = "other"
          /\ current_snapshot_data[q].status = "mem error"

\* C18: after KeyboardInterrupt at any point of the loop the function has
\* returned through its handler; from then on no cycle starts and no line is
\* appended to the block.
InterruptStopsCleanly ==
    /\ [](interrupted => pc = "stopped")
    /\ [][pc = "stopped" => (pc' = "stopped" /\ block' = block)]_vars

\* The interrupt came in section 4, after the timestamp line and the line of the
\* first of two trees.
InterruptedWhileRendering ==
    /\ interrupted
    /\ pc = "stopped"
    /\ Len(root_pids_to_log) = 2
    /\ block = <<StampLine, ProcLine(root_pids_to_log[1], 0)>>

\* C19: a delta computed in a cycle is measured against counters recorded in the
\* cycle immediately before it, the one whose start begins the interval the rate
\* is computed over, also when that cycle was abandoned.
DeltaAgainstPrecedingCycle ==
    pc = "sampled" =>
        \A p \in Enumerated :
            (/\ ~HandleFailed(p)
             /\ fetched[p].io.res = "ok"
             /\ p \in DOMAIN previous_io_counters) =>
                baseline_from = "the cycle before"

\* The places of children_map that list pid.
ListedAt(pid) ==
    {<<k, i>> \in (DOMAIN children_map)
                    \X (1..Cardinality(DOMAIN current_snapshot_data)) :
        i \in DOMAIN children_map[k] /\ children_map[k][i] = pid}

\* C20: every key of children_map and every id in a child list is in the current
\* snapshot; an id is listed only under its own parent id; a sample that is a root
\* is listed nowhere and a sample that is not a root is listed exactly once.
ChildrenMapIsConsistent ==
    pc \in {"forest", "rendered"} =>
        /\ DOMAIN children_map \subseteq DOMAIN current_snapshot_data
        /\ \A k \in DOMAIN children_map : \A i \in DOMAIN children_map[k] :
              /\ children_map[k][i] \in DOMAIN current_snapshot_data
              /\ current_snapshot_data[children_map[k][i]].ppid = k
        /\ \A c \in DOMAIN current_snapshot_data :
              Cardinality(ListedAt(c)) = IF c \in root_candidates THEN 0 ELSE 1

\* One root with two children listed under it.
TwoChildrenListed ==
    /\ pc = "forest"
    /\ \E k \in root_candidates :
          /\ root_candidates = {k}
          /\ k \in DOMAIN children_map
          /\ Len(children_map[k]) = 2
          /\ \A c \in Range(children_map[k]) : ListedAt(c) # {}

\* Whether pid is root or is reached from root through the lists of children_map.
RECURSIVE ReachedFrom(_, _, _)
ReachedFrom(pid, root, fuel) ==
    \/ pid = root
    \/ /\ fuel > 0
       /\ \E k \in DOMAIN children_map :
             /\ pid \in Range(children_map[k])
             /\ ReachedFrom(k, root, fuel - 1)

\* The lines of the block that are written for pid.
LinesOf(pid) == {i \in DOMAIN block : block[i].kind # "stamp" /\ block[i].pid = pid}

\* C21: without a filter every sample of the snapshot is reached from exactly one
\* root through children_map and has exactly one line in the block, whatever the
\* parent ids are.
ForestCoversLiveSet ==
    (pc = "rendered" /\ target_app_name = None) =>
        \A p \in DOMAIN current_snapshot_data :
            /\ Cardinality({r \in root_candidates :
                               ReachedFrom(p, r, Cardinality(DOMAIN current_snapshot_data))})
                  = 1
            /\ Cardinality(LinesOf(p)) = 1

\* C22: when the cached handle of an enumerated id is no longer running and a new
\* handle is created for the id, the sample of the new process has zero read and
\* write delta.
ReusedIdStartsFromZero ==
    pc = "sampled" =>
        \A p \in Enumerated :
            (fetched[p].is_running = "no" /\ fetched[p].handle = "created") =>
                /\ current_snapshot_data[p].delta_read_bytes = 0
                /\ current_snapshot_data[p].delta_write_bytes = 0

\* The ids the upward walk of this cycle put on search_queue, in order.
SearchQueueLog ==
    IF target_app_name # None /\ target_pids_found # {}
    THEN ResolveTargets(target_pids_found, current_snapshot_data).enqueued
    ELSE <<>>

Occurrences(seq, x) == Cardinality({i \in DOMAIN seq : seq[i] = x})

\* C23: for every assignment of parent ids, cycles and self-parenting included, the
\* upward walk ends having put each id on its queue at most once, and the descent
\* from the roots ends having written at most one line for each id.
WalkAndDescentVisitOnce ==
    pc \in {"forest", "rendered"} =>
        /\ \A p \in DOMAIN current_snapshot_data : Occurrences(SearchQueueLog, p) <= 1
        /\ pc = "rendered" =>
              \A p \in DOMAIN current_snapshot_data : Cardinality(LinesOf(p)) <= 1

\* A filtered cycle with two samples that are each other's parent, one of them
\* reached by the walk from the other, next to a tree that was rendered.
WalkedIntoParentCycle ==
    /\ pc = "rendered"
    /\ target_app_name # None
    /\ \E p, q \in DOMAIN current_snapshot_data :
          /\ p # q
          /\ current_snapshot_data[p].ppid = q
          /\ current_snapshot_data[q].ppid = p
          /\ p \in target_pids_found
          /\ q \notin target_pids_found
          /\ Occurrences(SearchQueueLog, q) = 1
    /\ \E i \in DOMAIN block : block[i].kind = "process"

\* C24: log_process_tree called with an id that is not in the current snapshot
\* writes one 'Terminated/Missing' line and nothing else, makes no call for any
\* child listed for the id, and returns zero cpu, zero memory, zero read and write
\* delta and error_count 1.
MissingIdIsOneLineZeroTotals ==
    (pc = "returned" /\ args.pid \notin DOMAIN current_snapshot_data) =>
        /\ result.lines = <<[kind |-> "missing", pid |-> args.pid,
                             indent |-> args.indent]>>
        /\ result.total = [cpu |-> 0, ws_kb |-> 0, delta_read_bytes |-> 0,
                           delta_write_bytes |-> 0, error_count |-> 1]
        /\ DOMAIN result.calls = {args.pid}
        /\ ~result.raised

\* The id of the call is missing while a child listed for it is in the snapshot.
MissingIdWithLiveChild ==
    /\ pc = "returned"
    /\ args.pid \notin DOMAIN current_snapshot_data
    /\ Range(ChildrenOf(children_map, args.pid)) \cap DOMAIN current_snapshot_data # {}

\* C25: the interval a cycle divides its I/O deltas by is at least 0.5 s, in the
\* first cycle too; after a completed cycle the loop has slept the configured
\* interval less the processing time, but 0.5 s at least, which is never less than
\* 0.5 s and never more than the configured interval.
IntervalAndSleepHaveFloor ==
    /\ pc \in {"collect", "sampled", "primed", "updated", "forest", "rendered"} =>
          actual_interval_duration >= 5
    /\ (pc = "start" /\ sleep_time # 0 /\ ~Abandoned) =>
          /\ sleep_time = IF repeat_interval_seconds - elapsed_time > 5
                          THEN repeat_interval_seconds - elapsed_time ELSE 5
          /\ sleep_time >= 5
          /\ repeat_interval_seconds >= 5 => sleep_time <= repeat_interval_seconds

\* The first cycle of a run, entered 0.2 s after the clock was read, has waited to
\* 0.5 s; its processing took longer than the interval and the loop slept 0.5 s.
FirstCycleWaitedAndOverran ==
    /\ pc = "start"
    /\ ~Abandoned
    /\ seen = {}
    /\ actual_interval_duration = 5
    /\ elapsed_time > repeat_interval_seconds
    /\ sleep_time = 5

\* The last n elements of seq.
LastOf(seq, n) == SubSeq(seq, Len(seq) - n + 1, Len(seq))

\* C26: at depth d the name field is 45 - 2d characters wide, and 1 when that is
\* less than 1; the display name on the line is not longer than the field, and
\* where the field is wider than 3 a display name that was cut ends in '...'.
NameFitsItsField ==
    pc = "returned" =>
        /\ result.name_field_length =
              IF 45 - 2 * args.depth >= 1 THEN 45 - 2 * args.depth ELSE 1
        /\ result.name_field_length >= 1
        /\ Len(result.truncated_display_name) <= result.name_field_length
        /\ (/\ result.truncated_display_name # result.display_name
            /\ result.name_field_length > 3) =>
              LastOf(result.truncated_display_name, 3) = <<".", ".", ".">>
        /\ ~(/\ result.truncated_display_name # result.display_name
             /\ Len(result.display_name) <= result.name_field_length)

\* At depth 20 the field is 5 wide: a name with the count of its children is cut to
\* two characters and '...'.
AnnotatedNameCutAtDepth ==
    /\ pc = "returned"
    /\ args.depth = 20
    /\ args.valid_children > 0
    /\ result.truncated_display_name = <<"n", "n", ".", ".", ".">>

\* The cleanup step of a cycle that was not abandoned is done.
CleanedUp ==
    \/ pc \in {"updated", "forest", "rendered"}
    \/ pc = "start" /\ sleep_time # 0 /\ ~Abandoned

\* C27: after the cleanup step of a cycle that is not abandoned every id with a
\* cached handle was enumerated in that cycle, so an id that is no longer enumerated
\* has no handle and the cache is not larger than the enumeration.
HandleCacheWithinEnumeration ==
    CleanedUp =>
        /\ process_objects_cache \subseteq Enumerated
        /\ \A p \in seen \ Enumerated : p \notin process_objects_cache
        /\ Cardinality(process_objects_cache) <= Len(all_processes_this_iter)

\* An id enumerated in an earlier cycle is absent from this one, whose enumeration
\* left a handle in the cache.
AbsentIdHandleRemoved ==
    /\ pc = "updated"
    /\ seen \ Enumerated # {}
    /\ process_objects_cache # {}
    /\ process_objects_cache = Enumerated

\* The position in the block of the line of pid.
LineAt(pid) == CHOOSE i \in DOMAIN block : block[i].kind = "process" /\ block[i].pid = pid

\* The samples of the subtree of root that are not root.
Descendants(root) == Subtree(root) \ {root}

\* C28: in a rendered tree every node of the subtree of the root has one line, the
\* line of a node comes after the lines of all its descendants, the subtree of a
\* child comes before the subtree of every sibling with a greater id, and the tree
\* has as many lines as the subtree has nodes.
TreeIsRenderedInPostOrder ==
    pc = "rendered" =>
        \A r \in Range(root_pids_to_log) :
            /\ \A p \in Subtree(r) : Cardinality(LinesOf(p)) = 1
            /\ \A p \in Subtree(r) : \A q \in Descendants(p) : LineAt(q) < LineAt(p)
            /\ \A a, b \in Descendants(r) :
                  (/\ a < b
                   /\ current_snapshot_data[a].ppid = current_snapshot_data[b].ppid) =>
                      \A x \in Subtree(a), y \in Subtree(b) : LineAt(x) < LineAt(y)
            /\ Cardinality({i \in DOMAIN block :
                               /\ block[i].kind = "process"
                               /\ block[i].pid \in Subtree(r)}) = Cardinality(Subtree(r))

\* A root with two children: the lines of the children in ascending id order, then
\* the line of the root.
ChildrenThenRoot ==
    /\ pc = "rendered"
    /\ \E r \in Range(root_pids_to_log) : \E a, b \in LiveChildren(r) :
          /\ a < b
          /\ block = <<StampLine, ProcLine(a, IndentWidth), ProcLine(b, IndentWidth),
                       ProcLine(r, 0)>>

\* The positions of the lines of a kind in the snapshot file.
FileLines(kind) == {i \in DOMAIN snapshot_file : snapshot_file[i].kind = kind}

\* s is the beginning of t.
IsPrefix(s, t) == Len(s) <= Len(t) /\ SubSeq(t, 1, Len(s)) = s

\* C29: over the runs that append to one snapshot file the header is written only
\* to an empty file: the file has the header line once, as its first line, before
\* every snapshot block, the separator only right after it, and no run changes or
\* removes what the file already holds.
HeaderOnceAndNothingLost ==
    /\ [](/\ FileLines("header") \subseteq {1}
          /\ FileLines("separator") \subseteq {2}
          /\ FileLines("stamp") # {} => FileLines("header") = {1}
          /\ pc = "loop" => FileLines("header") = {1})
    /\ [][IsPrefix(snapshot_file, snapshot_file')]_vars

\* A later run has opened the file that holds the header and a block of an earlier
\* run, and has appended a block of its own.
SecondRunAppended ==
    /\ run_number > 1
    /\ pc = "loop"
    /\ block # <<>>
    /\ Cardinality(FileLines("stamp")) >= 2
    /\ FileLines("header") = {1}

\* The fixed text '0.0 MB'.
ZeroMb == [text |-> "n.n MB", tenths |-> 0]

\* The rate of num / den bytes per 0.01 s is below 0.01 MB/s, that is
\* 10000 num < 1048576 den.
BelowRateThreshold(rate) == 625 * rate.num < 65536 * rate.den

\* The rates are the deltas over the interval when the interval is above 0.01 s,
\* and 0 otherwise; a rate below 0.01 MB/s is shown as '0.0 MB/s'.
RatesAsClaimed ==
    /\ \A side \in {"read", "write"} :
          LET delta == IF side = "read" THEN args.delta_read_bytes
                       ELSE args.delta_write_bytes
              rate == IF side = "read" THEN result.disk_read_rate_bps
                      ELSE result.disk_write_rate_bps
              shown == IF side = "read" THEN result.disk_read_display
                       ELSE result.disk_write_display
          IN  /\ args.interval_duration > 1 =>
                    rate.num * args.interval_duration = delta * rate.den
              /\ args.interval_duration <= 1 => rate.num = 0
              /\ BelowRateThreshold(rate) => shown = 0
    /\ (result.disk_read_display = 0 /\ result.disk_write_display = 0) =>
          result.disk_display = <<0>>

\* C30: every memory total below 103 KB, zero or not, is shown as '0.0 MB'; every
\* rate below 0.01 MB/s is shown as '0.0 MB/s'; the rate is the delta over the
\* interval when the interval is above 0.01 s and 0 otherwise.
BelowThresholdShownAsZero ==
    pc = "returned" =>
        /\ args.ws_kb < 103 => result.mem_display = ZeroMb
        /\ RatesAsClaimed

\* C30, as the code has it: a memory total of 0 KB is shown as '0.0 MB', a total
\* from 1 KB to 102 KB as '< 0.1 MB', a total from 103 KB as a number of at least
\* 0.1 MB; the rates are as in the claim.
BelowThresholdShownAsZeroOrLess ==
    pc = "returned" =>
        /\ args.ws_kb = 0 => result.mem_display = ZeroMb
        /\ (args.ws_kb > 0 /\ args.ws_kb < 103) =>
              result.mem_display = [text |-> "< 0.1 MB", tenths |-> 0]
        /\ args.ws_kb >= 103 =>
              /\ result.mem_display.text = "n.n MB"
              /\ result.mem_display.tenths >= 1
        /\ RatesAsClaimed

\* A total of 102 KB, an interval of 0.01 s with a read delta that is not counted,
\* and a write delta below the rate threshold.
JustBelowBothThresholds ==
    /\ pc = "returned"
    /\ args.ws_kb = 102
    /\ result.mem_display.text = "< 0.1 MB"
    /\ args.interval_duration = 1
    /\ args.delta_read_bytes = 2097152
    /\ result.disk_display = <<0>>

====
